---------------------------- MODULE Spec2Model ----------------------------
(***************************************************************************)
(* A model of backend/main.py of score-companies: the scoring function,    *)
(* the score_company handler (relational persistence followed by the      *)
(* best-effort Dropbox spreadsheet sync) and append_and_format_to_excel.   *)
(*                                                                         *)
(* Conventions.                                                            *)
(*  - A Python str is a sequence of tokens (<<>> is the empty string); a   *)
(*    date string is a sequence of one-character tokens so that strptime   *)
(*    can be modelled on its characters.                                   *)
(*  - A spreadsheet cell value is a record [kind, s, n]: kind "none" is    *)
(*    Python None, "str" a string (s), "int" an integer (n), "float" a     *)
(*    float with two decimals, held as an integer number of hundredths.    *)
(*  - A worksheet is a sequence of rows, row 1 the header; a row is a      *)
(*    tuple of NumCols cell values.                                        *)
(***************************************************************************)
EXTENDS Integers, Sequences, FiniteSets, Bags, TLC

(***************************************************************************)
(* Bounds of the model.                                                    *)
(***************************************************************************)
\* concurrent requests of the specification Spec
MaxRequests == 2
\* successive requests of the specification SpecSeq
MaxSeqRequests == 4

(***************************************************************************)
(* Program constants.                                                      *)
(***************************************************************************)
\* ScoreBase: Field(..., ge=0, le=10)
MinSubScore == 0
MaxSubScore == 10
\* the header of /scorecards.xlsx has twelve columns (new_row has twelve values)
NumCols == 12
\* row[1]: the company name column (1-based: 2)
CompanyCol == 2
\* row[11]: the score column (1-based: 12)
ScoreCol == 12

(***************************************************************************)
(* Cell values.                                                            *)
(***************************************************************************)
None == [kind |-> "none", s |-> <<>>, n |-> 0]
StrCell(x) == [kind |-> "str", s |-> x, n |-> 0]
IntCell(x) == [kind |-> "int", s |-> <<>>, n |-> x]
FloatCell(h) == [kind |-> "float", s |-> <<>>, n |-> h]

\* Python truthiness of a value: None, "", 0 and 0.0 are falsy
Truthy(v) ==
    CASE v.kind = "none" -> FALSE
      [] v.kind = "str" -> v.s # <<>>
      [] OTHER -> v.n # 0

\* `value is None`
IsNone(v) == v.kind = "none"

(***************************************************************************)
(* get_score: (alignment + market + product + bold_excitement) *           *)
(* (team + potential_return) / 80.00, then round(score, 2).  The result is *)
(* an integer number of hundredths.  The quotient N/80.0 is an IEEE double *)
(* and round(x, 2) rounds the double's exact value to the nearest          *)
(* hundredth, ties to even.  100*N/80 = 5N/4, so the decimal quotient is a *)
(* tie exactly when 5N mod 4 = 2.  If 5 divides N the double is exact      *)
(* (N/80 = m/8) and the tie goes to the even hundredth; otherwise the      *)
(* double is the 53-bit rounding of N/80 and lies above or below the tie   *)
(* according to the remainder of N * 2^f modulo 5 at the last mantissa bit.*)
(***************************************************************************)
\* 2^f mod 5 for f mod 4 = r
Pow2Mod5(r) == CASE r = 0 -> 1 [] r = 1 -> 2 [] r = 2 -> 4 [] OTHER -> 3

RECURSIVE Pow2(_)
Pow2(k) == IF k = 0 THEN 1 ELSE 2 * Pow2(k - 1)

\* j with 5 * 2^j <= 8N < 5 * 2^(j+1): the binary exponent of N/5, plus 3
BinExp(N) == CHOOSE j \in 0..10 : 5 * Pow2(j) <= 8 * N /\ 8 * N < 5 * Pow2(j + 1)

\* whether the double nearest to N/80 is above N/80 (5 does not divide N)
DoubleIsAbove(N) == (N * Pow2Mod5((3 - BinExp(N)) % 4)) % 5 >= 3

\* round(N / 80.00, 2) in hundredths
RoundDiv80(N) ==
    LET q == (5 * N) \div 4
        r == (5 * N) % 4
    IN  CASE r = 0 \/ r = 1 -> q
          [] r = 3 -> q + 1
          [] OTHER -> IF N % 5 = 0
                      THEN (IF q % 2 = 0 THEN q ELSE q + 1)
                      ELSE (IF DoubleIsAbove(N) THEN q + 1 ELSE q)

get_score_swapped(alignment, team, market, product, potential_return, bold_excitement) ==
    RoundDiv80((alignment + market + product + team) * (bold_excitement + potential_return))

get_score(alignment, team, market, product, potential_return, bold_excitement) ==
    RoundDiv80((alignment + market + product + bold_excitement) * (team + potential_return))

(***************************************************************************)
(* datetime.strptime(date, "%Y-%m-%d").date().  The format compiles to the *)
(* regular expression                                                      *)
(*   (\d\d\d\d)-(1[0-2]|0[1-9]|[1-9])-(3[01]|[12]\d|0[1-9]|[1-9]| [1-9])   *)
(* which must match the whole string; the fields then have to form a date  *)
(* (year >= 1, day within the month).  Any failure is a ValueError.        *)
(***************************************************************************)
Digits == {"0", "1", "2", "3", "4", "5", "6", "7", "8", "9"}

DigitVal(c) ==
    CASE c = "0" -> 0 [] c = "1" -> 1 [] c = "2" -> 2 [] c = "3" -> 3
      [] c = "4" -> 4 [] c = "5" -> 5 [] c = "6" -> 6 [] c = "7" -> 7
      [] c = "8" -> 8 [] OTHER -> 9

\* 1[0-2]|0[1-9]|[1-9]
MatchesMonth(f) ==
    \/ Len(f) = 2 /\ f[1] = "1" /\ f[2] \in {"0", "1", "2"}
    \/ Len(f) = 2 /\ f[1] = "0" /\ f[2] \in Digits \ {"0"}
    \/ Len(f) = 1 /\ f[1] \in Digits \ {"0"}

\* 3[01]|[12]\d|0[1-9]|[1-9]| [1-9]
MatchesDay(f) ==
    \/ Len(f) = 2 /\ f[1] = "3" /\ f[2] \in {"0", "1"}
    \/ Len(f) = 2 /\ f[1] \in {"1", "2"} /\ f[2] \in Digits
    \/ Len(f) = 2 /\ f[1] \in {"0", " "} /\ f[2] \in Digits \ {"0"}
    \/ Len(f) = 1 /\ f[1] \in Digits \ {"0"}

\* int() of a field of one or two characters (a leading space counts for nothing)
FieldVal(f) ==
    IF Len(f) = 1 THEN DigitVal(f[1])
    ELSE (IF f[1] = " " THEN 0 ELSE 10 * DigitVal(f[1])) + DigitVal(f[2])

IsLeap(y) == (y % 4 = 0 /\ y % 100 # 0) \/ y % 400 = 0

DaysInMonth(y, m) ==
    CASE m \in {4, 6, 9, 11} -> 30
      [] m = 2 -> (IF IsLeap(y) THEN 29 ELSE 28)
      [] OTHER -> 31

\* the month field is lm characters long, the day field ld
MatchesFormat(s, lm, ld) ==
    /\ Len(s) = 6 + lm + ld
    /\ \A i \in 1..4 : s[i] \in Digits
    /\ s[5] = "-"
    /\ MatchesMonth(SubSeq(s, 6, 5 + lm))
    /\ s[6 + lm] = "-"
    /\ MatchesDay(SubSeq(s, 7 + lm, 6 + lm + ld))

\* a variant that matches the format and does not build the date: any day
\* up to 31 passes in any month
strptime_unchecked(s) ==
    LET lm == IF Len(s) >= 7 /\ s[7] = "-" THEN 1 ELSE 2
        ld == Len(s) - 6 - lm
    IN  IF ld \in 1..2 /\ MatchesFormat(s, lm, ld)
        THEN [ok |-> TRUE,
              date |-> << 1000 * DigitVal(s[1]) + 100 * DigitVal(s[2])
                          + 10 * DigitVal(s[3]) + DigitVal(s[4]),
                          FieldVal(SubSeq(s, 6, 5 + lm)),
                          FieldVal(SubSeq(s, 7 + lm, 6 + lm + ld)) >>]
        ELSE [ok |-> FALSE, date |-> <<0, 0, 0>>]

\* The month field ends at the second "-", which no month alternative can
\* contain: it is one character long when s[7] is "-", else two.
\* [ok |-> FALSE] is a ValueError
strptime(s) ==
    LET lm == IF Len(s) >= 7 /\ s[7] = "-" THEN 1 ELSE 2
        ld == Len(s) - 6 - lm
    IN  IF ld \in 1..2 /\ MatchesFormat(s, lm, ld)
        THEN LET y == 1000 * DigitVal(s[1]) + 100 * DigitVal(s[2])
                      + 10 * DigitVal(s[3]) + DigitVal(s[4])
                 m == FieldVal(SubSeq(s, 6, 5 + lm))
                 d == FieldVal(SubSeq(s, 7 + lm, 6 + lm + ld))
             IN  IF y >= 1 /\ d <= DaysInMonth(y, m)
                 THEN [ok |-> TRUE, date |-> <<y, m, d>>]
                 ELSE [ok |-> FALSE, date |-> <<0, 0, 0>>]
        ELSE [ok |-> FALSE, date |-> <<0, 0, 0>>]

(***************************************************************************)
(* validate_scorecard_fields: the message naming the first missing field,  *)
(* or None.  score_company never calls it.                                 *)
(***************************************************************************)
validate_scorecard_fields(date, company_name, sector, investment_stage, alignment, team, market, product, potential_return, bold_excitement) ==
    CASE date = <<>> -> StrCell(<<"Date is required.">>)
      [] company_name = <<>> -> StrCell(<<"Company Name is required.">>)
      [] sector = <<>> -> StrCell(<<"Sector is required.">>)
      [] investment_stage = <<>> -> StrCell(<<"Investment Stage is required.">>)
      [] alignment = 0 -> StrCell(<<"Alignment is required.">>)
      [] team = 0 -> StrCell(<<"Team is required.">>)
      [] market = 0 -> StrCell(<<"Market is required.">>)
      [] product = 0 -> StrCell(<<"Product is required.">>)
      [] potential_return = 0 -> StrCell(<<"Potential_return is required.">>)
      [] bold_excitement = 0 -> StrCell(<<"Bold_excitement is required.">>)
      [] OTHER -> None

(***************************************************************************)
(* The worksheet of /scorecards.xlsx.                                      *)
(***************************************************************************)
Header ==
    << StrCell(<<"Name">>), StrCell(<<"Company">>), StrCell(<<"Date">>),
       StrCell(<<"Sector">>), StrCell(<<"Stage">>), StrCell(<<"Alignment">>),
       StrCell(<<"Team">>), StrCell(<<"Market">>), StrCell(<<"Product">>),
       StrCell(<<"Potential Return">>), StrCell(<<"Bold Excitement">>),
       StrCell(<<"Score">>) >>

TotalScoreLabel == <<"Total", " ", "Score">>

\* name = f"{first_name} {last_name}" and the twelve values of new_row
new_row(scorecard) ==
    << StrCell(scorecard.scored_by.first_name \o <<" ">> \o scorecard.scored_by.last_name),
       StrCell(scorecard.company_name),
       StrCell(scorecard.date),
       StrCell(scorecard.sector),
       StrCell(scorecard.investment_stage),
       IntCell(scorecard.scores.alignment),
       IntCell(scorecard.scores.team),
       IntCell(scorecard.scores.market),
       IntCell(scorecard.scores.product),
       IntCell(scorecard.scores.potential_return),
       IntCell(scorecard.scores.bold_excitement),
       FloatCell(scorecard.score) >>

Front(s) == SubSeq(s, 1, Len(s) - 1)
Last(s) == s[Len(s)]

\* a variant that puts a company seen for the first time before the others
AddToGroups_prepend(groups, row) ==
    LET company_name == row[CompanyCol]
    IN  IF ~Truthy(company_name) THEN groups
        ELSE IF \E k \in 1..Len(groups) : groups[k].company = company_name
        THEN [k \in 1..Len(groups) |->
                 IF groups[k].company = company_name
                 THEN [company |-> groups[k].company, rows |-> Append(groups[k].rows, row)]
                 ELSE groups[k]]
        ELSE <<[company |-> company_name, rows |-> <<row>>]>> \o groups

\* a variant without the test `if company_name`: every row is grouped
AddToGroups_unfiltered(groups, row) ==
    LET company_name == row[CompanyCol]
    IN  IF \E k \in 1..Len(groups) : groups[k].company = company_name
        THEN [k \in 1..Len(groups) |->
                 IF groups[k].company = company_name
                 THEN [company |-> groups[k].company, rows |-> Append(groups[k].rows, row)]
                 ELSE groups[k]]
        ELSE Append(groups, [company |-> company_name, rows |-> <<row>>])

\* grouped_data.setdefault(company_name, []).append(row), for a truthy company name;
\* a dict keeps its keys in the order of their first insertion
AddToGroups(groups, row) ==
    LET company_name == row[CompanyCol]
    IN  IF ~Truthy(company_name) THEN groups
        ELSE IF \E k \in 1..Len(groups) : groups[k].company = company_name
        THEN [k \in 1..Len(groups) |->
                 IF groups[k].company = company_name
                 THEN [company |-> groups[k].company, rows |-> Append(groups[k].rows, row)]
                 ELSE groups[k]]
        ELSE Append(groups, [company |-> company_name, rows |-> <<row>>])

RECURSIVE grouped_data(_)
grouped_data(data) ==
    IF data = <<>> THEN <<>>
    ELSE AddToGroups(grouped_data(Front(data)), Last(data))

\* whether scoreSum += row[11] is defined: the value is a number
IsNumber(v) == v.kind \in {"int", "float"}

\* a number in hundredths
Hundredths(v) == IF v.kind = "int" THEN 100 * v.n ELSE v.n

RECURSIVE scoreSum(_)
scoreSum(rows) ==
    IF rows = <<>> THEN 0
    ELSE scoreSum(Front(rows)) + Hundredths(Last(rows)[ScoreCol])

\* num / den to the nearest integer, ties to even
RoundHalfEven(num, den) ==
    LET q == num \div den
        r == num % den
    IN  IF 2 * r < den THEN q
        ELSE IF 2 * r > den THEN q + 1
        ELSE IF q % 2 = 0 THEN q ELSE q + 1

\* a variant that cuts the quotient after two decimals instead of rounding it
avg_score_truncated(rows) ==
    IF Len(rows) > 0 THEN scoreSum(rows) \div Len(rows) ELSE 0

\* round(scoreSum / count, 2) if count > 0 else 0, in hundredths.  The scores
\* the specifications below draw are exact doubles, for which the float
\* quotient rounds as the exact quotient does.
avg_score(rows) ==
    IF Len(rows) > 0 THEN RoundHalfEven(scoreSum(rows), Len(rows)) ELSE 0

\* a variant that writes the label into the company column
SummaryRow_in_company_col(header, avg) ==
    [c \in 1..Len(header) |->
        IF c = CompanyCol THEN StrCell(TotalScoreLabel)
        ELSE IF c = Len(header) THEN FloatCell(avg)
        ELSE None]

\* the cells "Total Score" (label_col = len(header) - 1) and the average
\* (score_col = len(header)) of row total_score_row; its other cells do not exist
SummaryRow(header, avg) ==
    LET score_col == Len(header)
        label_col == score_col - 1
    IN  [c \in 1..Len(header) |->
            IF c = label_col THEN StrCell(TotalScoreLabel)
            ELSE IF c = score_col THEN FloatCell(avg)
            ELSE None]

\* sheet.append([""] * len(header))
BlankRow(header) == [c \in 1..Len(header) |-> StrCell(<<>>)]

\* one iteration of `for company, rows in grouped_data.items()`
WriteGroup(sheet, header, group) ==
    sheet \o group.rows \o << SummaryRow(header, avg_score(group.rows)), BlankRow(header) >>

RECURSIVE WriteGroups(_, _, _)
WriteGroups(sheet, header, groups) ==
    IF groups = <<>> THEN sheet
    ELSE WriteGroup(WriteGroups(sheet, header, Front(groups)), header, Last(groups))

\* while all(cell.value is None for cell in sheet[sheet.max_row]): delete the row
RECURSIVE StripTrailing(_)
StripTrailing(sheet) ==
    IF Len(sheet) >= 1 /\ \A c \in 1..Len(Last(sheet)) : IsNone(Last(sheet)[c])
    THEN StripTrailing(Front(sheet))
    ELSE sheet

\* workbook.save and the next load_workbook: a cell holding "" is written as an
\* empty cell element and read back as None
SavedValue(v) == IF v.kind = "str" /\ v.s = <<>> THEN None ELSE v

workbook_save(sheet) ==
    [r \in 1..Len(sheet) |-> [c \in 1..Len(sheet[r]) |-> SavedValue(sheet[r][c])]]

\* the rows written back raise a TypeError when a grouped row's score is no number
GroupsSummable(groups) ==
    \A k \in 1..Len(groups) : \A i \in 1..Len(groups[k].rows) :
        IsNumber(groups[k].rows[i][ScoreCol])

\* append_and_format_to_excel on the worksheet loaded from file_path:
\* [ok |-> FALSE] when it raises, else the worksheet saved to file_path
append_and_format_to_excel(file, scorecard) ==
    LET appended == Append(file, new_row(scorecard))
        header == appended[1]
        data == Tail(appended)
        groups == grouped_data(data)
    IN  IF ~GroupsSummable(groups) THEN [ok |-> FALSE, sheet |-> file]
        ELSE [ok |-> TRUE,
              sheet |-> workbook_save(StripTrailing(WriteGroups(<<header>>, header, groups)))]

(***************************************************************************)
(* State.                                                                  *)
(*   token     DROPBOX_ACCESS_TOKEN, read from the environment at start    *)
(*   db        the committed rows of the table scorecards, in id order     *)
(*   blob      the worksheet stored in Dropbox at /scorecards.xlsx         *)
(*   pc        where each request to /api/score-company/ stands            *)
(*   scorecard the dict `scorecard` of each request                        *)
(*   local     the temporary file of each request                          *)
(*   fetched   the worksheet each request downloaded                       *)
(*   response  what each request returned                                  *)
(*   trace     the calls each request made on the database and on Dropbox  *)
(***************************************************************************)
VARIABLES token, db, blob, pc, scorecard, local, fetched, response, trace

vars == <<token, db, blob, pc, scorecard, local, fetched, response, trace>>

Procs == DOMAIN pc

Sentinel == <<"your-dropbox-access-token-here">>

\* if DROPBOX_ACCESS_TOKEN and DROPBOX_ACCESS_TOKEN != 'your-dropbox-access-token-here'
Configured(tok) == Truthy(tok) /\ tok # StrCell(Sentinel)

\* current_user, as get_current_user resolves it
current_user == [id |-> 1, first_name |-> <<"Ann">>, last_name |-> <<"Lee">>]

NoScorecard ==
    [id |-> 0, date |-> <<>>, company_name |-> <<>>, sector |-> <<>>,
     investment_stage |-> <<>>,
     scores |-> [alignment |-> 0, team |-> 0, market |-> 0, product |-> 0,
                 potential_return |-> 0, bold_excitement |-> 0],
     score |-> 0,
     scored_by |-> [first_name |-> <<>>, last_name |-> <<>>]]

NoFile == [exists |-> FALSE, sheet |-> <<>>]

NoResponse == [status |-> 0, id |-> 0, company_name |-> <<>>, score |-> 0, detail |-> <<>>]

\* the dict built for the Excel export, with its mock id
MakeScorecard(score_data, score) ==
    [id |-> 1, date |-> score_data.date, company_name |-> score_data.company_name,
     sector |-> score_data.sector, investment_stage |-> score_data.investment_stage,
     scores |-> [alignment |-> score_data.alignment, team |-> score_data.team,
                 market |-> score_data.market, product |-> score_data.product,
                 potential_return |-> score_data.potential_return,
                 bold_excitement |-> score_data.bold_excitement],
     score |-> score,
     scored_by |-> [first_name |-> current_user.first_name,
                    last_name |-> current_user.last_name]]

\* the Scorecard row; the id is the table's next autoincrement value
MakeRow(score_data, score, date, id) ==
    [id |-> id, date |-> date, company_name |-> score_data.company_name,
     sector |-> score_data.sector, investment_stage |-> score_data.investment_stage,
     alignment |-> score_data.alignment, team |-> score_data.team,
     market |-> score_data.market, product |-> score_data.product,
     potential_return |-> score_data.potential_return,
     bold_excitement |-> score_data.bold_excitement,
     score |-> score, user_id |-> current_user.id]

\* the response returned at the end of score_company
SuccessResponse(sc) ==
    [status |-> 200, id |-> sc.id, company_name |-> sc.company_name,
     score |-> sc.score, detail |-> <<>>]

\* HTTPException(500, "Database error: ...") raised in the inner except and
\* wrapped by the outer one into HTTPException(500, "Server error: ...")
ErrorResponse(cause) ==
    [status |-> 500, id |-> 0, company_name |-> <<>>, score |-> 0,
     detail |-> <<"Server error", "Database error", cause>>]

\* what the database calls of the try block do: "ok", or the call that raises
DbOutcomes == {"ok", "add raises", "commit raises", "refresh raises"}

\* whether db.commit() has written the row when the outcome is `outcome`
Commits(outcome) == outcome \in {"ok", "refresh raises"}

\* the events of the try block that saves to the database
SaveTrace(parsed_ok, outcome) ==
    IF ~parsed_ok THEN <<"ValueError", "rollback">>
    ELSE CASE outcome = "ok" -> <<"add", "commit", "refresh">>
           [] outcome = "add raises" -> <<"rollback">>
           [] outcome = "commit raises" -> <<"add", "rollback">>
           [] OTHER -> <<"add", "commit", "rollback">>

\* a variant that only tests the token for truth, not against the placeholder
EntersSync_any_token(parsed_ok, outcome, tok) == parsed_ok /\ outcome = "ok" /\ Truthy(tok)

\* whether score_company goes on to the Dropbox export after the database block
EntersSync(parsed_ok, outcome, tok) == parsed_ok /\ outcome = "ok" /\ Configured(tok)

(***************************************************************************)
(* score_company, from the request to the end of the database block, and   *)
(* to its return when it does not export to Dropbox.                       *)
(***************************************************************************)
ScoreCompany(p, score_data, outcome) ==
    /\ pc[p] = "idle"
    /\ \E score \in {get_score(score_data.alignment, score_data.team, score_data.market,
                               score_data.product, score_data.potential_return,
                               score_data.bold_excitement)},
          parsed \in {strptime(score_data.date)} :
         LET sc == MakeScorecard(score_data, score)
             id == Len(db) + 1
             saved == [sc EXCEPT !.id = id]
         IN  /\ trace' = [trace EXCEPT ![p] = SaveTrace(parsed.ok, outcome)]
             /\ db' = IF parsed.ok /\ Commits(outcome)
                      THEN Append(db, MakeRow(score_data, score, parsed.date, id))
                      ELSE db
             /\ IF ~parsed.ok
                THEN /\ scorecard' = [scorecard EXCEPT ![p] = sc]
                     /\ response' = [response EXCEPT ![p] = ErrorResponse("ValueError")]
                     /\ pc' = [pc EXCEPT ![p] = "done"]
                     /\ local' = local
                ELSE IF outcome # "ok"
                THEN /\ scorecard' = [scorecard EXCEPT ![p] = sc]
                     /\ response' = [response EXCEPT ![p] = ErrorResponse(outcome)]
                     /\ pc' = [pc EXCEPT ![p] = "done"]
                     /\ local' = local
                ELSE IF EntersSync(parsed.ok, outcome, token)
                THEN /\ scorecard' = [scorecard EXCEPT ![p] = saved]
                     /\ response' = response
                     /\ pc' = [pc EXCEPT ![p] = "sync"]
                     \* tempfile.NamedTemporaryFile(delete=False, suffix=".xlsx")
                     /\ local' = [local EXCEPT ![p] = [exists |-> TRUE, sheet |-> <<>>]]
                ELSE /\ scorecard' = [scorecard EXCEPT ![p] = saved]
                     /\ response' = [response EXCEPT ![p] = SuccessResponse(saved)]
                     /\ pc' = [pc EXCEPT ![p] = "done"]
                     /\ local' = local
    /\ UNCHANGED <<token, blob, fetched>>

Raised(events) ==
    \E i \in 1..Len(events) :
        events[i] \in {"download raises", "format raises", "upload raises"}

\* a variant whose except clause re-raises: the request ends in a server error
EndSync_reraises(p, events) ==
    /\ trace' = [trace EXCEPT ![p] = @ \o events \o (IF local[p].exists THEN <<"unlink">> ELSE <<>>)]
    /\ local' = [local EXCEPT ![p] = NoFile]
    /\ response' = [response EXCEPT ![p] =
                       IF Raised(events) THEN ErrorResponse("Dropbox")
                       ELSE SuccessResponse(scorecard[p])]
    /\ pc' = [pc EXCEPT ![p] = "done"]

\* a variant that unlinks the temporary file at the end of the try block
\* instead of in a finally clause: after an exception the file stays
EndSync_no_finally(p, events) ==
    /\ trace' = [trace EXCEPT ![p] =
                    @ \o events \o (IF local[p].exists /\ ~Raised(events)
                                    THEN <<"unlink">> ELSE <<>>)]
    /\ local' = [local EXCEPT ![p] = IF Raised(events) THEN local[p] ELSE NoFile]
    /\ response' = [response EXCEPT ![p] = SuccessResponse(scorecard[p])]
    /\ pc' = [pc EXCEPT ![p] = "done"]

\* the except and finally clauses of the export and the return: the error is
\* swallowed, the temporary file is unlinked if it exists, the scorecard returned
EndSync(p, events) ==
    /\ trace' = [trace EXCEPT ![p] = @ \o events \o (IF local[p].exists THEN <<"unlink">> ELSE <<>>)]
    /\ local' = [local EXCEPT ![p] = NoFile]
    /\ response' = [response EXCEPT ![p] = SuccessResponse(scorecard[p])]
    /\ pc' = [pc EXCEPT ![p] = "done"]

\* Step 1: fetch_excel_from_dropbox(dropbox_path, local_path)
FetchExcel(p, ok) ==
    /\ pc[p] = "sync"
    /\ IF ok
       THEN /\ local' = [local EXCEPT ![p] = [exists |-> TRUE, sheet |-> blob]]
            /\ fetched' = [fetched EXCEPT ![p] = blob]
            /\ trace' = [trace EXCEPT ![p] = Append(@, "download")]
            /\ pc' = [pc EXCEPT ![p] = "fetched"]
            /\ UNCHANGED response
       ELSE /\ EndSync(p, <<"download", "download raises">>)
            /\ UNCHANGED fetched
    /\ UNCHANGED <<token, db, blob, scorecard>>

\* Step 2: append_and_format_to_excel(local_path, scorecard); io_ok is whether
\* load_workbook and workbook.save go through
AppendAndFormat(p, io_ok) ==
    LET result == append_and_format_to_excel(local[p].sheet, scorecard[p])
    IN  /\ pc[p] = "fetched"
        /\ IF io_ok /\ result.ok
           THEN /\ local' = [local EXCEPT ![p] = [exists |-> TRUE, sheet |-> result.sheet]]
                /\ trace' = [trace EXCEPT ![p] = Append(@, "format")]
                /\ pc' = [pc EXCEPT ![p] = "formatted"]
                /\ UNCHANGED response
           ELSE EndSync(p, <<"format raises">>)
        /\ UNCHANGED <<token, db, blob, scorecard, fetched>>

\* a variant with WriteMode.add, which never overwrites: the path exists, the
\* upload goes to a renamed file and the path keeps its content
Uploaded_add_mode(remote, file) == remote

\* what files_upload(..., mode=overwrite) leaves at dropbox_path
Uploaded(remote, file) == file

\* Step 3: upload_excel_to_dropbox(local_path, dropbox_path)
UploadExcel(p, ok) ==
    /\ pc[p] = "formatted"
    /\ IF ok
       THEN /\ blob' = Uploaded(blob, local[p].sheet)
            /\ EndSync(p, <<"upload">>)
       ELSE /\ blob' = blob
            /\ EndSync(p, <<"upload", "upload raises">>)
    /\ UNCHANGED <<token, db, scorecard, fetched>>

(***************************************************************************)
(* The requests the specifications draw.                                   *)
(***************************************************************************)
GoodDate == <<"2", "0", "2", "4", "-", "0", "1", "-", "1", "5">>
SlashDate == <<"1", "3", "/", "3", "2", "/", "2", "0", "2", "4">>
UnpaddedDate == <<"2", "0", "2", "4", "-", "1", "-", "5">>
BadDayDate == <<"2", "0", "2", "4", "-", "0", "2", "-", "3", "0">>

Dates == {GoodDate, SlashDate, UnpaddedDate, BadDayDate, <<>>}

Companies == {<<>>, <<"A">>, <<"B">>}

\* (alignment, team, market, product, potential_return, bold_excitement);
\* their scores 2.5 and 5.0 are exact doubles
ScoreVectors == {<<5, 5, 5, 5, 5, 5>>, <<10, 5, 10, 10, 5, 10>>}

SubScores == MinSubScore..MaxSubScore

ScoreBase(date, company_name, v) ==
    [date |-> date, company_name |-> company_name, sector |-> <<"Tech">>,
     investment_stage |-> <<"Seed">>, alignment |-> v[1], team |-> v[2],
     market |-> v[3], product |-> v[4], potential_return |-> v[5],
     bold_excitement |-> v[6]]

\* the requests of Spec: every date and company, one score vector
Inputs == {ScoreBase(d, c, <<10, 5, 10, 10, 5, 10>>) : d \in Dates, c \in Companies}

\* the requests of SpecSeq: every company and score vector, a good date
SeqInputs == {ScoreBase(GoodDate, c, v) : c \in Companies, v \in ScoreVectors}

Tokens == {None, StrCell(<<>>), StrCell(Sentinel), StrCell(<<"sl.token">>)}

InitRequests(n, tokens) ==
    /\ token \in tokens
    /\ db = <<>>
    /\ blob = <<Header>>
    /\ pc = [p \in 1..n |-> "idle"]
    /\ scorecard = [p \in 1..n |-> NoScorecard]
    /\ local = [p \in 1..n |-> NoFile]
    /\ fetched = [p \in 1..n |-> <<>>]
    /\ response = [p \in 1..n |-> NoResponse]
    /\ trace = [p \in 1..n |-> <<>>]

\* requests are numbered in the order in which they arrive
Arrived(p) == \A q \in Procs : q < p => pc[q] # "idle"

\* requests arrive one after the other's return
Returned(p) == \A q \in Procs : q < p => pc[q] = "done"

(***************************************************************************)
(* Spec: MaxRequests concurrent requests, every outcome of the database    *)
(* and of Dropbox.                                                         *)
(***************************************************************************)
Init == InitRequests(MaxRequests, Tokens)

Next ==
    \/ \E p \in Procs :
           /\ Arrived(p) /\ pc[p] = "idle"
           /\ \E score_data \in Inputs, outcome \in DbOutcomes :
                  ScoreCompany(p, score_data, outcome)
    \/ \E p \in Procs, ok \in BOOLEAN : FetchExcel(p, ok)
    \/ \E p \in Procs, ok \in BOOLEAN : AppendAndFormat(p, ok)
    \/ \E p \in Procs, ok \in BOOLEAN : UploadExcel(p, ok)

Spec == Init /\ [][Next]_vars

(***************************************************************************)
(* SpecSeq: MaxSeqRequests requests one after the other, Dropbox           *)
(* configured and every call going through.                                *)
(***************************************************************************)
InitSeq == InitRequests(MaxSeqRequests, {StrCell(<<"sl.token">>)})

NextSeq ==
    \/ \E p \in Procs :
           /\ Returned(p) /\ pc[p] = "idle"
           /\ \E score_data \in SeqInputs : ScoreCompany(p, score_data, "ok")
    \/ \E p \in Procs : FetchExcel(p, TRUE)
    \/ \E p \in Procs : AppendAndFormat(p, TRUE)
    \/ \E p \in Procs : UploadExcel(p, TRUE)

SpecSeq == InitSeq /\ [][NextSeq]_vars

(***************************************************************************)
(* SpecScore: one request, over every six sub-scores of ScoreBase.         *)
(***************************************************************************)
InitScore == InitRequests(1, {None})

NextScore ==
    /\ pc[1] = "idle"
    /\ \E a \in SubScores, t \in SubScores, m \in SubScores,
          pr \in SubScores, r \in SubScores, b \in SubScores :
           ScoreCompany(1, ScoreBase(GoodDate, <<"A">>, <<a, t, m, pr, r, b>>), "ok")

SpecScore == InitScore /\ [][NextScore]_vars

(***************************************************************************)
(* Properties.                                                             *)
(***************************************************************************)
Has(tr, e) == \E i \in 1..Len(tr) : tr[i] = e

\* every occurrence of b in tr comes after an occurrence of a
Precedes(tr, a, b) ==
    \A j \in 1..Len(tr) : tr[j] = b => \E i \in 1..(j - 1) : tr[i] = a

\* a step of the Dropbox export of request p raised
SyncFailed(p) == Raised(trace[p])

\* the row of the table with this id, company and score
Persisted(id, company_name, score) ==
    \E i \in 1..Len(db) :
        db[i].id = id /\ db[i].company_name = company_name /\ db[i].score = score

\* C1: a request whose export raised at the download, at the formatting or at
\* the upload still returns the success response carrying the persisted
\* scorecard, and the table still holds its row.
C1_SyncFailureSwallowed ==
    \A p \in Procs :
        (pc[p] = "done" /\ SyncFailed(p)) =>
            /\ Has(trace[p], "commit") /\ Configured(token)
            /\ response[p].status = 200
            /\ response[p].id = scorecard[p].id
            /\ response[p].score = scorecard[p].score
            /\ Persisted(response[p].id, scorecard[p].company_name, response[p].score)

\* one request failed at the download and another at the upload
C1_Witness ==
    \E p \in Procs, q \in Procs :
        /\ pc[p] = "done" /\ Has(trace[p], "download raises")
        /\ pc[q] = "done" /\ Has(trace[q], "upload raises")
        /\ response[p].status = 200 /\ response[q].status = 200
        /\ Len(db) = 2

\* request p makes its score_company step: it arrives and runs the database block
Submits(p) == pc[p] = "idle" /\ pc'[p] # "idle"

\* request p called files_download or files_upload
UsedDropbox(p) == Has(trace[p], "download") \/ Has(trace[p], "upload")

\* the database call of request p that raised, if one did
PersistFailure(resp) ==
    /\ resp.status = 500
    /\ resp.detail[3] \in {"add raises", "commit raises", "refresh raises"}

\* C2: when add, commit or refresh raises, the table holds exactly the rows it
\* held before the submission, the request ends in a server error and it makes
\* no download and no upload.
C2_PersistFailureLeavesNoRow ==
    [][\A p \in Procs :
          (Submits(p) /\ (\E i \in 1..Len(trace'[p]) : trace'[p][i] = "rollback")
                      /\ ~(\E i \in 1..Len(trace'[p]) : trace'[p][i] = "ValueError")) =>
              /\ db' = db
              /\ pc'[p] = "done"
              /\ PersistFailure(response'[p])
              /\ ~(\E i \in 1..Len(trace'[p]) : trace'[p][i] \in {"download", "upload"})]_vars

\* validate_scorecard_fields names a missing field of the request of scorecard sc
MissingField(sc) ==
    validate_scorecard_fields(sc.date, sc.company_name, sc.sector, sc.investment_stage,
                              sc.scores.alignment, sc.scores.team, sc.scores.market,
                              sc.scores.product, sc.scores.potential_return,
                              sc.scores.bold_excitement) # None

\* C3: a submission with a missing required field is rejected before any row
\* is persisted: it does not return success and the table has as many rows
\* after it as before.
C3_MissingFieldRejected ==
    [][\A p \in Procs :
          (Submits(p) /\ MissingField(scorecard'[p])) =>
              /\ Len(db') = Len(db)
              /\ pc'[p] = "done"
              /\ response'[p].status # 200]_vars

\* a calendar date written YYYY-MM-DD: four digits, two and two, and a day of the month
IsIsoDate(s) ==
    /\ Len(s) = 10
    /\ \A i \in {1, 2, 3, 4, 6, 7, 9, 10} : s[i] \in Digits
    /\ s[5] = "-" /\ s[8] = "-"
    /\ LET y == 1000 * DigitVal(s[1]) + 100 * DigitVal(s[2]) + 10 * DigitVal(s[3]) + DigitVal(s[4])
           m == 10 * DigitVal(s[6]) + DigitVal(s[7])
           d == 10 * DigitVal(s[9]) + DigitVal(s[10])
       IN  y >= 1 /\ m \in 1..12 /\ d \in 1..DaysInMonth(y, m)

\* a string the format %Y-%m-%d reads as a date: a four-digit year, then a
\* month and a day of one or two characters each (a zero or, for the day, a
\* space may lead), separated by "-"
ReadableDate(s) ==
    \E lm \in 1..2, ld \in 1..2 :
        /\ Len(s) = 6 + lm + ld
        /\ \A i \in 1..4 : s[i] \in Digits
        /\ s[5] = "-" /\ s[6 + lm] = "-"
        /\ \A i \in (6..(5 + lm)) : s[i] \in Digits
        /\ \A i \in ((7 + lm)..(6 + lm + ld)) : s[i] \in Digits \cup {" "}
        /\ s[6 + lm + ld] \in Digits
        /\ LET year == 1000 * DigitVal(s[1]) + 100 * DigitVal(s[2]) + 10 * DigitVal(s[3]) + DigitVal(s[4])
               month == FieldVal(SubSeq(s, 6, 5 + lm))
               day == FieldVal(SubSeq(s, 7 + lm, 6 + lm + ld))
           IN  year >= 1 /\ month \in 1..12 /\ day \in 1..DaysInMonth(year, month)

\* request p is rejected for its date before the database is touched
RejectedForDate(p) ==
    /\ db' = db
    /\ pc'[p] = "done"
    /\ response'[p].status = 500
    /\ response'[p].detail[3] = "ValueError"
    /\ trace'[p] = <<"ValueError", "rollback">>

\* C4 as stated: a submission whose date is not a valid YYYY-MM-DD string is
\* rejected with a date-parse error before any persistence attempt, no row is
\* added and no spreadsheet sync is performed.
C4_NonIsoDateRejected ==
    [][\A p \in Procs :
          (Submits(p) /\ ~IsIsoDate(scorecard'[p].date)) => RejectedForDate(p)]_vars

\* C4, amended: a submission whose date the format %Y-%m-%d cannot read is
\* rejected with a date-parse error before any persistence attempt, no row is
\* added and no spreadsheet sync is performed.
C4_UnreadableDateRejected ==
    [][\A p \in Procs :
          (Submits(p) /\ ~ReadableDate(scorecard'[p].date)) => RejectedForDate(p)]_vars

\* a request with the date "13/32/2024" has been rejected, and one with an
\* impossible day of the month
C4_Witness ==
    \E p \in Procs, q \in Procs :
        /\ scorecard[p].date = SlashDate /\ scorecard[q].date = BadDayDate
        /\ response[p].status = 500 /\ response[q].status = 500
        /\ trace[p] = <<"ValueError", "rollback">>
        /\ db = <<>>

\* C5: a request calls files_download or files_upload only after its own
\* commit and only when the token is set and is not the placeholder; with the
\* token unset or the placeholder no request touches Dropbox, the worksheet
\* stays as it was and a request whose row is saved returns success.
C5_SyncOnlyAfterCommitWhenConfigured ==
    /\ \A p \in Procs :
          /\ UsedDropbox(p) => Truthy(token) /\ token # StrCell(Sentinel)
          /\ Precedes(trace[p], "commit", "download")
          /\ Precedes(trace[p], "refresh", "download")
          /\ Precedes(trace[p], "download", "upload")
          /\ pc[p] \in {"sync", "fetched", "formatted"} =>
                 Has(trace[p], "commit") /\ ~Has(trace[p], "rollback")
    /\ (~Truthy(token) \/ token = StrCell(Sentinel)) =>
          /\ blob = <<Header>>
          /\ \A p \in Procs :
                /\ ~UsedDropbox(p)
                /\ pc[p] \in {"idle", "done"}
                /\ (pc[p] = "done" /\ ~Has(trace[p], "rollback")) =>
                       /\ response[p].status = 200
                       /\ Persisted(response[p].id, scorecard[p].company_name, response[p].score)

\* with the placeholder token a request has saved its row and returned success,
\* and the worksheet is untouched
C5_WitnessUnconfigured ==
    /\ token = StrCell(Sentinel)
    /\ \E p \in Procs : pc[p] = "done" /\ response[p].status = 200 /\ Len(db) >= 1
    /\ blob = <<Header>>

\* C6: for six sub-scores in [0,10] the score is
\* (alignment + market + product + bold_excitement) * (team + potential_return) / 80
\* to the nearest hundredth and lies in [0.0, 10.0]; it is 10.0 for six tens,
\* 0.0 for six zeros and 2.5 for six fives; the row stored and the response
\* returned carry this score and the six sub-scores submitted.
C6_ScoreFormula ==
    pc[1] = "done" =>
        LET in == scorecard[1].scores
            N == (in.alignment + in.market + in.product + in.bold_excitement)
                 * (in.team + in.potential_return)
            h == response[1].score
            all(v) == /\ in.alignment = v /\ in.team = v /\ in.market = v
                      /\ in.product = v /\ in.potential_return = v
                      /\ in.bold_excitement = v
        IN  /\ response[1].status = 200
            \* h/100 is a hundredth nearest to N/80: |h - 5N/4| <= 1/2
            /\ 4 * h - 5 * N <= 2 /\ 5 * N - 4 * h <= 2
            /\ h >= 0 /\ h <= 1000
            /\ all(10) => h = 1000
            /\ all(0) => h = 0
            /\ all(5) => h = 250
            /\ Len(db) = 1 /\ db[1].score = h /\ scorecard[1].score = h
            /\ db[1].alignment = in.alignment /\ db[1].team = in.team
            /\ db[1].market = in.market /\ db[1].product = in.product
            /\ db[1].potential_return = in.potential_return
            /\ db[1].bold_excitement = in.bold_excitement

\* a request whose quotient is a tie between two hundredths (N = 2: 0.025)
\* has been scored
C6_Witness ==
    /\ pc[1] = "done"
    /\ scorecard[1].scores = [alignment |-> 1, team |-> 1, market |-> 0, product |-> 0,
                              potential_return |-> 1, bold_excitement |-> 0]
    /\ response[1].score = 3

(***************************************************************************)
(* The rows of a worksheet.                                                *)
(***************************************************************************)
\* a separator: every cell empty
IsBlankRow(r) == \A c \in 1..Len(r) : r[c] = None \/ r[c] = StrCell(<<>>)

\* a summary: the label in the second-to-last column, nothing left of it
IsSummaryRow(r) ==
    /\ r[Len(r) - 1] = StrCell(TotalScoreLabel)
    /\ \A c \in 1..(Len(r) - 2) : IsNone(r[c])

IsDataRow(r) == ~IsBlankRow(r) /\ ~IsSummaryRow(r)

\* the flat data rows of a worksheet: its rows below the header that are
\* neither summaries nor separators
DataRows(sheet) == SelectSeq(Tail(sheet), IsDataRow)

SeqToBag(s) ==
    [x \in {s[i] : i \in 1..Len(s)} |-> Cardinality({i \in 1..Len(s) : s[i] = x})]

\* the export of request p went through to the upload
UploadedOk(p) == Has(trace[p], "upload") /\ ~Has(trace[p], "upload raises")

\* C7: the flat data rows of the worksheet a sync writes are those of the
\* worksheet it read plus the one new row: none lost, none duplicated.
C7_FlatRowsPlusNewRow ==
    \A p \in Procs :
        pc[p] = "formatted" =>
            SeqToBag(DataRows(local[p].sheet))
                = SeqToBag(Append(DataRows(fetched[p]), new_row(scorecard[p])))

\* C8: a successful upload replaces whatever the path holds by the worksheet
\* the request computed from its own download and its own row, whatever has
\* been uploaded since that download.
C8_UploadOverwrites ==
    [][\A p \in Procs :
          (pc[p] = "formatted" /\ pc'[p] = "done"
              /\ ~(\E i \in 1..Len(trace'[p]) : trace'[p][i] = "upload raises")) =>
                 blob' = append_and_format_to_excel(fetched[p], scorecard[p]).sheet]_vars

HasRow(sheet, row) == \E i \in 1..Len(sheet) : sheet[i] = row

\* the lost update: two requests downloaded the same worksheet, both uploaded
\* and returned success, both rows are in the table, and the worksheet holds
\* the row of one and not of the other
C8_LostUpdate ==
    \E p \in Procs, q \in Procs :
        /\ p # q
        /\ pc[p] = "done" /\ pc[q] = "done"
        /\ UploadedOk(p) /\ UploadedOk(q)
        /\ fetched[p] = fetched[q]
        /\ response[p].status = 200 /\ response[q].status = 200
        /\ Persisted(response[p].id, scorecard[p].company_name, response[p].score)
        /\ Persisted(response[q].id, scorecard[q].company_name, response[q].score)
        /\ response[p].id # response[q].id
        /\ scorecard[p].company_name # <<>> /\ scorecard[q].company_name # <<>>
        /\ ~HasRow(blob, new_row(scorecard[p]))
        /\ HasRow(blob, new_row(scorecard[q]))

\* the distinct elements of a sequence, in the order of their first occurrence
RECURSIVE FirstSeen(_)
FirstSeen(s) ==
    IF s = <<>> THEN <<>>
    ELSE LET IsOther(x) == x # Head(s)
         IN  <<Head(s)>> \o FirstSeen(SelectSeq(Tail(s), IsOther))

\* the rows of a sequence that name a company, and the companies they name
Named(rows) == LET HasCompany(r) == Truthy(r[CompanyCol]) IN SelectSeq(rows, HasCompany)
CompaniesOf(rows) == [i \in 1..Len(rows) |-> rows[i][CompanyCol]]

\* the rows of one company, in their order
RowsOf(rows, company) == LET IsOf(r) == r[CompanyCol] = company IN SelectSeq(rows, IsOf)

\* one block of the output: the rows of the company, one summary row (the
\* label in the second-to-last column, the average in the last, nothing
\* else), one separator
Block(rows, company) ==
    RowsOf(rows, company)
    \o << [c \in 1..NumCols |->
              IF c = NumCols - 1 THEN StrCell(TotalScoreLabel)
              ELSE IF c = NumCols THEN FloatCell(avg_score(RowsOf(rows, company)))
              ELSE None],
          [c \in 1..NumCols |-> None] >>

RECURSIVE Blocks(_, _)
Blocks(rows, companies) ==
    IF companies = <<>> THEN <<>>
    ELSE Block(rows, Head(companies)) \o Blocks(rows, Tail(companies))

\* the rows append_and_format_to_excel reads for request p: those of the
\* worksheet it downloaded, and its own
InputRows(p) == Append(Tail(fetched[p]), new_row(scorecard[p]))

RowsSubmitted ==
    [i \in 1..Cardinality({p \in Procs : pc[p] = "done"}) |-> new_row(scorecard[i])]

SummaryCount(sheet) == Cardinality({i \in 1..Len(sheet) : IsSummaryRow(sheet[i])})

\* C10: after any number of syncs, each reading the worksheet the one before
\* wrote, the worksheet is the one a single aggregation of all the rows
\* submitted gives: summary rows and separators read back are never grouped,
\* and there is exactly one summary row for each company.
C10_ReaggregationIdempotent ==
    LET rows == Named(RowsSubmitted)
        companies == FirstSeen(CompaniesOf(rows))
    IN  /\ blob = <<Header>> \o Blocks(rows, companies)
        /\ SummaryCount(blob) = Len(companies)
        /\ \A i \in 2..Len(blob) :
              (IsSummaryRow(blob[i]) \/ IsBlankRow(blob[i])) => ~Truthy(blob[i][CompanyCol])

\* three syncs have run one after the other, two of them for the same company
C10_Witness ==
    /\ \A p \in 1..3 : pc[p] = "done" /\ UploadedOk(p)
    /\ scorecard[1].company_name = <<"A">>
    /\ scorecard[2].company_name = <<"B">>
    /\ scorecard[3].company_name = <<"A">>
    /\ SummaryCount(blob) = 2

\* the rows of a sequence that name no company: the cell is "" or None
Unnamed(rows) == LET NoCompany(r) == ~Truthy(r[CompanyCol]) IN SelectSeq(rows, NoCompany)

\* C11: a row read whose company-name cell is empty or None, the new row of
\* a submission without company name included, is in no group and is not in
\* the worksheet written: the rows written are those that name a company and,
\* for each company, one summary and one separator, and nothing else.
C11_UnnamedRowsExcluded ==
    \A p \in Procs :
        pc[p] = "formatted" =>
            LET data == InputRows(p)
                groups == grouped_data(data)
                written == Tail(local[p].sheet)
            IN  /\ \A k \in 1..Len(groups) :
                      /\ Truthy(groups[k].company)
                      /\ \A i \in 1..Len(groups[k].rows) :
                             Truthy(groups[k].rows[i][CompanyCol])
                /\ \A i \in 1..Len(written) :
                      ~Truthy(written[i][CompanyCol]) => ~IsDataRow(written[i])
                /\ \A i \in 1..Len(data) :
                      (~Truthy(data[i][CompanyCol]) /\ IsDataRow(data[i]))
                          => ~HasRow(written, data[i])
                /\ Len(written) = Len(Named(data)) + 2 * Len(groups)

\* a submission without company name has been formatted into a worksheet
\* that held the rows, the summary and the separator of an earlier one
C11_Witness ==
    \E p \in Procs :
        /\ pc[p] = "formatted"
        /\ scorecard[p].company_name = <<>>
        /\ Len(Unnamed(Tail(fetched[p]))) >= 2
        /\ Len(Named(Tail(fetched[p]))) >= 1
        /\ Len(local[p].sheet) = Len(fetched[p])

\* the sum, in hundredths, of the score column of a sequence of rows
RECURSIVE ScoreTotal(_)
ScoreTotal(rows) ==
    IF rows = <<>> THEN 0
    ELSE (IF Head(rows)[ScoreCol].kind = "int" THEN 100 * Head(rows)[ScoreCol].n
          ELSE Head(rows)[ScoreCol].n) + ScoreTotal(Tail(rows))

Abs(x) == IF x < 0 THEN -x ELSE x

\* h hundredths is the mean of the scores of the rows, rounded to two decimals
IsRoundedMean(h, rows) ==
    /\ Len(rows) > 0
    /\ 2 * Abs(h * Len(rows) - ScoreTotal(rows)) <= Len(rows)

\* the data rows that stand directly above row i of a worksheet
RECURSIVE RunAbove(_, _)
RunAbove(sheet, i) ==
    IF i > 1 /\ IsDataRow(sheet[i - 1])
    THEN Append(RunAbove(sheet, i - 1), sheet[i - 1])
    ELSE <<>>

\* a row that holds only a score
ScoreOnly(h) == [c \in 1..NumCols |-> IF c = ScoreCol THEN FloatCell(h) ELSE None]

\* C12: the last column of every summary row written holds the mean of the
\* score column over the rows of its group -- the rows directly above it,
\* which are all the rows read that name the company and no others -- rounded
\* to two decimals; the scores 2.0, 4.0, 3.0 give 3.0.
C12_SummaryIsGroupMean ==
    /\ avg_score(<<ScoreOnly(200), ScoreOnly(400), ScoreOnly(300)>>) = 300
    /\ \A p \in Procs :
          pc[p] = "formatted" =>
              LET written == Tail(local[p].sheet)
                  named == Named(InputRows(p))
              IN  \A i \in 1..Len(written) :
                      IsSummaryRow(written[i]) =>
                          LET group == RunAbove(written, i)
                          IN  /\ group # <<>>
                              /\ group = RowsOf(named, group[1][CompanyCol])
                              /\ written[i][NumCols].kind = "float"
                              /\ IsRoundedMean(written[i][NumCols].n, group)

\* a group of three rows with the scores 2.5, 2.5 and 5.0 has been written
\* with the summary 3.33, and the worksheet holds a group of another company
C12_Witness ==
    \E p \in Procs :
        /\ pc[p] = "formatted"
        /\ \E i \in 2..Len(local[p].sheet) :
               /\ IsSummaryRow(local[p].sheet[i])
               /\ Len(RunAbove(local[p].sheet, i)) = 3
               /\ ScoreTotal(RunAbove(local[p].sheet, i)) = 1000
               /\ local[p].sheet[i][NumCols] = FloatCell(333)
        /\ Len(FirstSeen(CompaniesOf(Named(InputRows(p))))) = 2

\* request p is in the export to Dropbox, or has been through it
InSync(p) == pc[p] \in {"sync", "fetched", "formatted"}
WasInSync(p) == pc[p] = "done" /\ Has(trace[p], "download")

\* the export of request p ended at the step that raised `failure`
EndedBy(p, failure) == WasInSync(p) /\ Has(trace[p], failure)

\* C13: the temporary file exists while a request is in the export, and no
\* longer once the request has returned: the last call of a request that went
\* into the export is the unlink, whether every step went through or the
\* download, the formatting or the upload raised.
C13_ScratchFileRemoved ==
    \A p \in Procs :
        /\ InSync(p) => local[p].exists
        /\ WasInSync(p) =>
              /\ ~local[p].exists
              /\ Last(trace[p]) = "unlink"
              /\ Cardinality({i \in 1..Len(trace[p]) : trace[p][i] = "unlink"}) = 1

\* one request returned after its formatting raised and one after its upload raised
C13_Witness ==
    \E p \in Procs, q \in Procs :
        /\ EndedBy(p, "format raises")
        /\ EndedBy(q, "upload raises")
        /\ ~local[p].exists /\ ~local[q].exists

\* C14: the worksheet append_and_format_to_excel saves never ends with a
\* fully blank row: the separator written after the last group is stripped
\* before the save.
C14_NoTrailingBlankRow ==
    \A p \in Procs :
        pc[p] = "formatted" => ~IsBlankRow(Last(local[p].sheet))

=============================================================================
